---- MODULE Spec2Model ----
(***************************************************************************)
(* Model of the outline-to-graph conversion of src/app.py:                 *)
(*   generate_unique_node_id, parse_nodes_from_markdown and                *)
(*   parse_markdown_to_graphviz.                                           *)
(* A text is a sequence of one-character strings.                          *)
(***************************************************************************)
EXTENDS Integers, Sequences, FiniteSets, TLC

VARIABLES markdown_text, max_depth, custom_root, hide_leaf_nodes,
          pc, lines, idx, parent_stack, existing_ids, nodes, edges,
          node_list, parsed

vars == <<markdown_text, max_depth, custom_root, hide_leaf_nodes,
          pc, lines, idx, parent_stack, existing_ids, nodes, edges,
          node_list, parsed>>

\* ---------------------------------------------------------------- bounds
MaxLines == 3

MaxDepthDrawn == 2

\* slider "Mind Map Depth Limit", min_value
MinDepthLimit == 1

\* ------------------------------------------------------------ characters
NL == "\n"

\* Python's \s and str.strip() whitespace (the part that can occur here)
IsSpace(c) == c \in {" ", "\n", "\t", "\r"}

\* Python's \w : letters, digits, underscore
IsWord(c) == c \in {"a", "b", "c", "x", "A", "B", "_",
                    "0", "1", "2", "3", "4", "5", "6", "7", "8", "9"}

\* str.lower() on one character
LowerChar(c) == IF c = "A" THEN "a" ELSE IF c = "B" THEN "b" ELSE c

Lower(s) == [i \in 1..Len(s) |-> LowerChar(s[i])]

\* ------------------------------------------------------- string helpers
\* number of leading characters of s that satisfy \s
RECURSIVE LeadingWs(_)
LeadingWs(s) ==
  IF s = <<>> THEN 0
  ELSE IF IsSpace(Head(s)) THEN 1 + LeadingWs(Tail(s)) ELSE 0

RECURSIVE TrailingWs(_)
TrailingWs(s) ==
  IF s = <<>> THEN 0
  ELSE IF IsSpace(s[Len(s)]) THEN 1 + TrailingWs(SubSeq(s, 1, Len(s) - 1))
  ELSE 0

\* str.strip()
Strip(s) ==
  LET a == LeadingWs(s)
  IN  IF a = Len(s) THEN <<>>
      ELSE SubSeq(s, a + 1, Len(s) - TrailingWs(s))

\* str.split('\n') : always at least one (possibly empty) piece
RECURSIVE SplitAcc(_, _, _)
SplitAcc(s, cur, acc) ==
  IF s = <<>> THEN Append(acc, cur)
  ELSE IF Head(s) = NL THEN SplitAcc(Tail(s), <<>>, Append(acc, cur))
  ELSE SplitAcc(Tail(s), Append(cur, Head(s)), acc)

Split(s) == SplitAcc(s, <<>>, <<>>)

\* str(counter) in decimal
Digit(d) == CASE d = 0 -> "0" [] d = 1 -> "1" [] d = 2 -> "2" [] d = 3 -> "3"
              [] d = 4 -> "4" [] d = 5 -> "5" [] d = 6 -> "6" [] d = 7 -> "7"
              [] d = 8 -> "8" [] OTHER -> "9"

RECURSIVE ToStr(_)
ToStr(k) == IF k < 10 THEN <<Digit(k)>> ELSE ToStr(k \div 10) \o <<Digit(k % 10)>>

\* ----------------------------------------------- generate_unique_node_id
\* re.sub(r'\W+', '_', text) : every maximal run of non-word characters
\* becomes one underscore
RECURSIVE SubNonWord(_, _)
SubNonWord(s, inRun) ==
  IF s = <<>> THEN <<>>
  ELSE IF IsWord(Head(s)) THEN <<Head(s)>> \o SubNonWord(Tail(s), FALSE)
  ELSE IF inRun THEN SubNonWord(Tail(s), TRUE)
  ELSE <<"_">> \o SubNonWord(Tail(s), TRUE)

BaseId(text) ==
  LET base_id == Lower(SubNonWord(text, FALSE))
  IN  IF base_id = <<>> THEN <<"n", "o", "d", "e">> ELSE base_id

\* f"{base_id}_{counter}"
Suffixed(base_id, counter) == base_id \o <<"_">> \o ToStr(counter)

\* the while loop: node_id / counter
RECURSIVE IdLoop(_, _, _, _)
IdLoop(base_id, node_id, counter, ids) ==
  IF node_id \in ids
  THEN IdLoop(base_id, Suffixed(base_id, counter), counter + 1, ids)
  ELSE node_id

generate_unique_node_id_nocheck(text, ids) == BaseId(text)

generate_unique_node_id_from2(text, ids) ==
  IdLoop(BaseId(text), BaseId(text), 2, ids)

generate_unique_node_id(text, ids) ==
  IdLoop(BaseId(text), BaseId(text), 1, ids)

\* ------------------------------------------- parse_markdown_to_graphviz
\* re.match(r'^(\s*)-\s(.+)', line) on one line (no newline inside)
LineMatches(line) ==
  LET n == LeadingWs(line)
  IN  /\ Len(line) >= n + 3
      /\ line[n + 1] = "-"
      /\ IsSpace(line[n + 2])

\* len(indentation_str)
Indentation(line) == LeadingWs(line)

\* (.+) then node_text.strip()
NodeText(line) == Strip(SubSeq(line, LeadingWs(line) + 3, Len(line)))

Level(line) == Indentation(line) \div 2

\* while parent_stack and parent_stack[-1][0] >= level: parent_stack.pop()
RECURSIVE PopStackGT(_, _)
PopStackGT(stack, level) ==
  IF stack # <<>> /\ stack[Len(stack)][1] > level
  THEN PopStackGT(SubSeq(stack, 1, Len(stack) - 1), level)
  ELSE stack

PopStackNone(stack, level) == stack

PopStackOnce(stack, level) ==
  IF stack # <<>> /\ stack[Len(stack)][1] >= level
  THEN SubSeq(stack, 1, Len(stack) - 1)
  ELSE stack

RECURSIVE PopStack(_, _)
PopStack(stack, level) ==
  IF stack # <<>> /\ stack[Len(stack)][1] >= level
  THEN PopStack(SubSeq(stack, 1, Len(stack) - 1), level)
  ELSE stack

\* ------------------------------------------------ parse_nodes_from_markdown
\* re.findall(r'^\s*-\s(.+)', text, re.MULTILINE), scanning from position p
\* (1-based).  \s also matches the newline; '.' does not.
AtLineStart(s, p) == p = 1 \/ s[p - 1] = NL

RECURSIVE DotRun(_, _)
DotRun(s, p) ==
  IF p > Len(s) \/ s[p] = NL THEN 0 ELSE 1 + DotRun(s, p + 1)

\* end position (exclusive) of a match starting at p, or 0 when none
MatchAt(s, p) ==
  LET w == LeadingWs(SubSeq(s, p, Len(s)))
      d == p + w
  IN  IF /\ AtLineStart(s, p)
         /\ d + 1 <= Len(s)
         /\ s[d] = "-"
         /\ IsSpace(s[d + 1])
         /\ DotRun(s, d + 2) >= 1
      THEN d + 2 + DotRun(s, d + 2)
      ELSE 0

GroupAt(s, p) ==
  LET e == MatchAt(s, p)
  IN  SubSeq(s, e - DotRun(s, p + LeadingWs(SubSeq(s, p, Len(s))) + 2), e - 1)

RECURSIVE FindAll(_, _)
FindAll(s, p) ==
  IF p > Len(s) THEN <<>>
  ELSE IF MatchAt(s, p) > 0
       THEN <<GroupAt(s, p)>> \o FindAll(s, MatchAt(s, p))
       ELSE FindAll(s, p + 1)

parse_nodes_from_markdown(text) ==
  LET found == FindAll(text, 1)
  IN  [i \in 1..Len(found) |-> Strip(found[i])]

\* ---------------------------------------------------------------- inputs
LineChoices ==
  { <<"-", " ", "a">>,
    <<" ", " ", "-", " ", "a">>,
    <<" ", " ", " ", " ", "-", " ", "b">>,
    <<"-", " ", "A", "!", "B">>,
    <<" ", " ", "-", " ", "A", "@", "B">>,
    <<" ", " ", "-", " ", "a", "_", "1">>,
    <<" ", " ", "-", " ", " ">>,
    <<"-">>,
    <<"x">>,
    <<>> }

RECURSIVE JoinLines(_)
JoinLines(ls) ==
  IF ls = <<>> THEN <<>>
  ELSE IF Len(ls) = 1 THEN ls[1]
  ELSE ls[1] \o <<NL>> \o JoinLines(Tail(ls))

Outlines ==
  { JoinLines(ls) : ls \in UNION { [1..n -> LineChoices] : n \in 0..MaxLines } }

\* ------------------------------------------------------------------ Init
Init ==
  /\ markdown_text \in Outlines
  /\ max_depth \in MinDepthLimit..MaxDepthDrawn
  /\ custom_root \in { <<>>, <<"R">> }
  /\ hide_leaf_nodes \in BOOLEAN
  /\ pc = "start"
  /\ lines = <<>>
  /\ idx = 1
  /\ parent_stack = <<>>
  /\ existing_ids = {}
  /\ nodes = <<>>
  /\ edges = <<>>
  /\ node_list = <<>>
  /\ parsed = FALSE

\* --------------------------------------------------------------- actions
\* entry of parse_markdown_to_graphviz up to the for loop
Enter ==
  /\ pc = "start"
  /\ lines' = Split(Strip(markdown_text))
  /\ parent_stack' = <<>>
  /\ existing_ids' = {}
  /\ idx' = 1
  /\ pc' = "scan"
  /\ UNCHANGED <<markdown_text, max_depth, custom_root, hide_leaf_nodes,
                 nodes, edges, node_list, parsed>>

\* loop body when the line is not a list item: continue
SkipLine ==
  /\ pc = "scan"
  /\ idx <= Len(lines)
  /\ ~LineMatches(lines[idx])
  /\ idx' = idx + 1
  /\ UNCHANGED <<markdown_text, max_depth, custom_root, hide_leaf_nodes,
                 pc, lines, parent_stack, existing_ids, nodes, edges,
                 node_list, parsed>>

\* loop body for a list item
EmitNode ==
  /\ pc = "scan"
  /\ idx <= Len(lines)
  /\ LineMatches(lines[idx])
  /\ LET line      == lines[idx]
         level     == Level(line)
         node_text == NodeText(line)
         node_id   == generate_unique_node_id(node_text, existing_ids)
         popped    == PopStack(parent_stack, level)
     IN  /\ existing_ids' = existing_ids \cup {node_id}
         /\ nodes' = Append(nodes, [id |-> node_id, label |-> node_text,
                                    level |-> level, line |-> idx,
                                    seen |-> existing_ids])
         /\ edges' = IF popped # <<>>
                     THEN Append(edges, <<popped[Len(popped)][2], node_id>>)
                     ELSE edges
         /\ parent_stack' = Append(popped, <<level, node_id>>)
  /\ idx' = idx + 1
  /\ UNCHANGED <<markdown_text, max_depth, custom_root, hide_leaf_nodes,
                 pc, lines, node_list, parsed>>

\* after the loop: genai.GenerativeModel(...), then MIND_MAP_PROMPT and
\* topic are names that are bound nowhere: NameError, nothing is returned
AfterLoop ==
  /\ pc = "scan"
  /\ idx > Len(lines)
  /\ pc' = "raised"
  /\ UNCHANGED <<markdown_text, max_depth, custom_root, hide_leaf_nodes,
                 lines, idx, parent_stack, existing_ids, nodes, edges,
                 node_list, parsed>>

\* a call of parse_nodes_from_markdown on the same outline
ParseNodes ==
  /\ ~parsed
  /\ node_list' = parse_nodes_from_markdown(markdown_text)
  /\ parsed' = TRUE
  /\ UNCHANGED <<markdown_text, max_depth, custom_root, hide_leaf_nodes,
                 pc, lines, idx, parent_stack, existing_ids, nodes, edges>>

Next == Enter \/ SkipLine \/ EmitNode \/ AfterLoop \/ ParseNodes

Spec == Init /\ [][Next]_vars

\* ------------------------------------------------------- shared notions
\* the for loop has consumed every line
ScanDone == pc = "raised" \/ (pc = "scan" /\ idx > Len(lines))

NodeIdx == 1..Len(nodes)

\* index of the emitted node carrying a given id
IdxOf(id) == CHOOSE i \in NodeIdx : nodes[i].id = id

\* emitted nodes that have an earlier emitted node of strictly smaller depth
HasShallowerBefore(i) == \E j \in 1..(i - 1) : nodes[j].level < nodes[i].level

InEdges(i) == { e \in 1..Len(edges) : edges[e][2] = nodes[i].id }

\* ------------------------------------------------------------------- C1
\* C1: after any prefix of the lines has been scanned, the ids of the nodes
\* emitted so far are pairwise distinct; each id was absent from
\* existing_ids when it was returned and is in existing_ids afterwards.
C1_UniqueIds ==
  /\ \A i, j \in NodeIdx : i # j => nodes[i].id # nodes[j].id
  /\ \A i \in NodeIdx : nodes[i].id \notin nodes[i].seen
  /\ existing_ids = { nodes[i].id : i \in NodeIdx }

\* two different labels with one base id, and two empty labels, in one build
C1_Witness ==
  /\ \E i, j \in NodeIdx :
        /\ i < j
        /\ nodes[i].label # nodes[j].label
        /\ BaseId(nodes[i].label) = BaseId(nodes[j].label)
  /\ \E i \in NodeIdx : nodes[i].label = <<>>

\* ------------------------------------------------------------------- C2
\* C2 (as stated): when the scan finishes, the number of edges equals the
\* number of nodes minus the number of depth-0 nodes; every node of depth > 0
\* has exactly one incoming edge and every depth-0 node has none.
C2_Claim ==
  ScanDone =>
    /\ Len(edges) = Len(nodes) - Cardinality({ i \in NodeIdx : nodes[i].level = 0 })
    /\ \A i \in NodeIdx :
         Cardinality(InEdges(i)) = IF nodes[i].level > 0 THEN 1 ELSE 0

\* C2 (amended): when the scan finishes, the number of edges equals the
\* number of nodes minus the number of nodes that have no earlier emitted
\* node of strictly smaller depth; a node with such an earlier node has
\* exactly one incoming edge, every other node (all depth-0 nodes among
\* them) has none.
C2_Amended ==
  ScanDone =>
    /\ Len(edges) = Len(nodes)
                    - Cardinality({ i \in NodeIdx : ~HasShallowerBefore(i) })
    /\ \A i \in NodeIdx :
         Cardinality(InEdges(i)) = IF HasShallowerBefore(i) THEN 1 ELSE 0

\* a finished scan with an indented node that has no parent, next to a
\* node that has one
C2_Witness ==
  /\ ScanDone
  /\ \E i \in NodeIdx : nodes[i].level > 0 /\ InEdges(i) = {}
  /\ \E i \in NodeIdx : InEdges(i) # {}

\* ------------------------------------------------------------------- C3
\* C3: no emitted node has depth >= max_depth.
C3_Claim == \A i \in NodeIdx : nodes[i].level < max_depth

\* ------------------------------------------------------------------- C4
\* C4: with a non-empty custom_root every depth-0 node is labelled
\* custom_root; with an empty custom_root it carries the text of its line.
C4_Claim ==
  \A i \in NodeIdx :
    nodes[i].level = 0 =>
      nodes[i].label = IF custom_root # <<>> THEN custom_root
                       ELSE NodeText(lines[nodes[i].line])

\* ------------------------------------------------------------------- C5
\* C5: with hide_leaf_nodes, a list item whose next raw line exists and is
\* not deeper produces no node; a list item without a next line, or any
\* list item when hide_leaf_nodes is off, is not suppressed.
IsLeafLine(k) ==
  /\ k < Len(lines)
  /\ (Indentation(lines[k + 1]) \div 2) <= Level(lines[k])

C5_Claim ==
  \A k \in 1..Len(lines) :
    (pc # "start" /\ k < idx /\ LineMatches(lines[k])) =>
      IF hide_leaf_nodes /\ IsLeafLine(k)
      THEN \A i \in NodeIdx : nodes[i].line # k
      ELSE \E i \in NodeIdx : nodes[i].line = k

\* ------------------------------------------------------------------- C6
\* C6: a call of parse_markdown_to_graphviz never raises: once the scan is
\* over it returns (graph, node_count).
C6_Claim == pc # "raised"

\* ------------------------------------------------------------------- C7
\* C7: generate_unique_node_id is first-fit: the returned id is the base id
\* when that is unused, otherwise base_k for the least k >= 1 with base_k
\* unused; the first two labels of a build that share a base id get base
\* and base_1.
FirstFit(id, base, ids) ==
  IF base \notin ids THEN id = base
  ELSE \E k \in 1..(Cardinality(ids) + 1) :
         /\ id = Suffixed(base, k)
         /\ id \notin ids
         /\ \A j \in 1..(k - 1) : Suffixed(base, j) \in ids

C7_FirstFit ==
  /\ \A i \in NodeIdx :
       FirstFit(nodes[i].id, BaseId(nodes[i].label), nodes[i].seen)
  /\ (Len(nodes) >= 2 /\ BaseId(nodes[1].label) = BaseId(nodes[2].label)) =>
       /\ nodes[1].id = BaseId(nodes[1].label)
       /\ nodes[2].id = Suffixed(BaseId(nodes[1].label), 1)

\* "A!B" then "A@B" have been given a_b and a_b_1, and a third id of the
\* build had to go on to suffix 2
C7_Witness ==
  /\ \E i, j \in NodeIdx :
       /\ i < j
       /\ nodes[i].label = <<"A", "!", "B">>
       /\ nodes[j].label = <<"A", "@", "B">>
       /\ nodes[i].id = <<"a", "_", "b">>
       /\ nodes[j].id = <<"a", "_", "b", "_", "1">>
  /\ \E i \in NodeIdx :
       /\ nodes[i].id = Suffixed(BaseId(nodes[i].label), 2)
       /\ Cardinality(nodes[i].seen) = 2

\* ------------------------------------------------------------------- C8
\* C8: the depth of every emitted node is the number of leading space
\* characters of its line in the original outline text, divided by 2.
RECURSIVE LeadingSpaces(_)
LeadingSpaces(s) ==
  IF s = <<>> THEN 0
  ELSE IF Head(s) = " " THEN 1 + LeadingSpaces(Tail(s)) ELSE 0

\* physical lines of the original text dropped by the leading strip
DroppedLines ==
  Cardinality({ p \in 1..LeadingWs(markdown_text) : markdown_text[p] = NL })

OrigLine(k) == Split(markdown_text)[k + DroppedLines]

C8_Claim ==
  \A i \in NodeIdx :
    nodes[i].level = LeadingSpaces(OrigLine(nodes[i].line)) \div 2

\* ------------------------------------------------------------------- C9
\* C9: parse_nodes_from_markdown returns, in line order and without
\* deduplication, one label per physical line that starts, after its own
\* leading whitespace, with "- ": the rest of that line, trimmed.
Qualifies(line) ==
  LET n == LeadingWs(line)
  IN  Len(line) >= n + 2 /\ line[n + 1] = "-" /\ line[n + 2] = " "

RECURSIVE LabelsOf(_)
LabelsOf(ls) ==
  IF ls = <<>> THEN <<>>
  ELSE IF Qualifies(Head(ls))
       THEN <<Strip(SubSeq(Head(ls), LeadingWs(Head(ls)) + 3, Len(Head(ls))))>>
            \o LabelsOf(Tail(ls))
       ELSE LabelsOf(Tail(ls))

C9_Claim ==
  parsed => node_list = LabelsOf(Split(markdown_text))

\* ------------------------------------------------------------------ C10
\* C10: the source of every edge is the most recently emitted node, before
\* the target, whose depth is strictly smaller than the target's: the source
\* was emitted earlier, is strictly shallower, and no node emitted between
\* the two is shallower than the target.
C10_NearestAncestor ==
  \A e \in 1..Len(edges) :
    /\ \E i \in NodeIdx : nodes[i].id = edges[e][1]
    /\ \E i \in NodeIdx : nodes[i].id = edges[e][2]
    /\ LET s == IdxOf(edges[e][1])
           t == IdxOf(edges[e][2])
       IN  /\ s < t
           /\ nodes[s].level < nodes[t].level
           /\ \A m \in (s + 1)..(t - 1) : nodes[m].level >= nodes[t].level

\* an edge whose source is not the node emitted just before the target
C10_Witness ==
  \E e \in 1..Len(edges) :
    /\ \E i \in NodeIdx : nodes[i].id = edges[e][1]
    /\ \E i \in NodeIdx : nodes[i].id = edges[e][2]
    /\ IdxOf(edges[e][1]) + 1 < IdxOf(edges[e][2])

\* ------------------------------------------------------------------ C11
\* C11: between line-processing steps the depths of the (depth, node_id)
\* entries of parent_stack strictly increase from bottom to top, and the top
\* entry, when present, is the node emitted most recently (once a node has
\* been emitted the stack is not empty).
C11_StackInvariant ==
  /\ \A a, b \in 1..Len(parent_stack) :
       a < b => parent_stack[a][1] < parent_stack[b][1]
  /\ parent_stack # <<>> =>
       /\ nodes # <<>>
       /\ parent_stack[Len(parent_stack)] =
            <<nodes[Len(nodes)].level, nodes[Len(nodes)].id>>
  /\ nodes # <<>> => parent_stack # <<>>

\* a stack of at least two entries from which an earlier node has been popped
C11_Witness ==
  /\ Len(parent_stack) >= 2
  /\ Len(nodes) > Len(parent_stack)

====
